---- MODULE Spec2Model ----
(***************************************************************************)
(* State-machine model of src/code/main.py: the loss selector of           *)
(* compute_loss, the batch evaluation, the gradient step, the training     *)
(* loop of train and the grid search of main.                              *)
(*                                                                         *)
(* Numbers.  beta is a fixed-point number counting units of 1e-7 (One is   *)
(* the real 1.0, Tol the real 1e-6).  Every other real (weights, losses,   *)
(* fidelities, learning rate) is an integer; a division rounds towards     *)
(* minus infinity, the model's counterpart of floating-point rounding.     *)
(***************************************************************************)
EXTENDS Integers, Sequences, FiniteSets, TLC

VARIABLES
    pc,                   \* position of the process in main / train
    rng,                  \* state of the global numpy generator
    trial,                \* number of train calls main has started
    hyperparams_results,  \* main: (chi, beta, lr) -> the four history lists
    heap,                 \* the list objects: heap[id] is the list's content
    num_epochs,           \* run configuration
    dataset,              \* run configuration: the qutrit states of the file
    batch_size,           \* run configuration
    lr_list,              \* run configuration: main's lr_list
    learning_rate,        \* train's argument
    beta,                 \* train's argument
    weights,              \* train's local: the EncoderParameters
    hist,                 \* train's locals loss_history .. FB_history (list ids)
    epoch,                \* train's loop variable
    acc,                  \* train's locals epoch_loss, num_batches, ...
    batches,              \* what the dataloader iterator has still to yield
    log,                  \* history variable: one record per batch of this call
    n_updates,            \* history variable: assignments of an update_step result
    call                  \* a direct call of the loss selector and its result

vars == <<pc, rng, trial, hyperparams_results, heap, num_epochs, dataset,
          batch_size, lr_list, learning_rate, beta, weights, hist, epoch, acc,
          batches, log, n_updates, call>>

-----------------------------------------------------------------------------
(* Bounds of the model. *)
MaxEpochs == 2
MaxData == 3
MaxBatchSize == 2

(* Program constants. *)
One == 10000000
Tol == 10
seed == 42
NumKeys == 8

-----------------------------------------------------------------------------
(* Arithmetic. *)

Abs(x) == IF x < 0 THEN -x ELSE x

Sign(x) == IF x < 0 THEN -1 ELSE IF x > 0 THEN 1 ELSE 0

\* beta * x for the fixed-point beta, exactly: defined when beta is a whole
\* number or x is a multiple of One (x then counts units of 1e-7 as well).
BetaTimes(b, x) ==
    CASE b % One = 0 -> (b \div One) * x
      [] x % One = 0 -> b * (x \div One)

RECURSIVE SumSeq(_)
SumSeq(s) == IF s = <<>> THEN 0 ELSE Head(s) + SumSeq(Tail(s))

\* jnp.mean of a non-empty sequence.
Mean(s) == SumSeq(s) \div Len(s)

-----------------------------------------------------------------------------
(* The encoder / cloning / fidelity pipeline (modules encoder, cloning,    *)
(* embed, decoder, loss): deterministic functions of the weights and the   *)
(* qutrit state, with their derivatives.                                   *)

KeyOf == <<"1", "2", "3", "4", "5", "6", "7", "8">>
Keys == {KeyOf[i] : i \in 1..NumKeys}

occupation_loss(w, s) == 2 * Abs(w["1"] - s)
fidelity_B(w, s) == 0 - 2 * Abs(w["2"] - s)
fidelity_A(w, s) == fidelity_B(w, s) + s

d_occupation_loss(w, s) ==
    [k \in Keys |-> IF k = "1" THEN 2 * Sign(w["1"] - s) ELSE 0]
d_fidelity_B(w, s) ==
    [k \in Keys |-> IF k = "2" THEN 0 - 2 * Sign(w["2"] - s) ELSE 0]
d_fidelity_A(w, s) == d_fidelity_B(w, s)

-----------------------------------------------------------------------------
(* compute_loss. *)

\* A selector that compares beta with 1.0 exactly.
total_loss_exact(b, occ, clon) ==
    IF b = One THEN occ ELSE clon + BetaTimes(b, occ)

\* A selector with the two branches exchanged.
total_loss_swapped(b, occ, clon) ==
    IF Abs(b - One) < Tol THEN clon + BetaTimes(b, occ) ELSE occ

\* lines 74-77: the jax.lax.cond on |beta - 1.0| < 1e-6.
total_loss(b, occ, clon) ==
    IF Abs(b - One) < Tol THEN occ ELSE clon + BetaTimes(b, occ)

cloning_loss_of(FA, FB) == 1 - FA - FB + (FA - FB) * (FA - FB)

compute_loss(w, s, b) ==
    LET occ == occupation_loss(w, s)
        FA == fidelity_A(w, s)
        FB == fidelity_B(w, s)
        clon == cloning_loss_of(FA, FB)
    IN  [total |-> total_loss(b, occ, clon), cloning |-> clon,
         FA |-> FA, FB |-> FB]

-----------------------------------------------------------------------------
(* compute_loss_batch, total_loss_for_grad and the gradient. *)

\* The per-sample records of a batch, in batch order (jax.vmap).
RECURSIVE losses_of(_, _, _)
losses_of(w, batch, b) ==
    IF batch = <<>> THEN <<>>
    ELSE <<compute_loss(w, Head(batch), b)>> \o losses_of(w, Tail(batch), b)

compute_loss_batch(w, batch, b) ==
    LET losses == losses_of(w, batch, b)
        col(f) == [i \in 1..Len(losses) |-> losses[i][f]]
    IN  [total |-> Mean(col("total")), cloning |-> Mean(col("cloning")),
         FA |-> Mean(col("FA")), FB |-> Mean(col("FB"))]

total_loss_for_grad(w, batch, b) == compute_loss_batch(w, batch, b).total

\* Derivative of one sample's total loss: jax.grad through lines 71-77 takes
\* the branch the selector takes.
d_total_loss(w, s, b) ==
    LET FA == fidelity_A(w, s)
        FB == fidelity_B(w, s)
        dA == d_fidelity_A(w, s)
        dB == d_fidelity_B(w, s)
        dO == d_occupation_loss(w, s)
        dC == [k \in Keys |-> 0 - dA[k] - dB[k] + 2 * (FA - FB) * (dA[k] - dB[k])]
    IN  IF Abs(b - One) < Tol THEN dO
        ELSE [k \in Keys |-> dC[k] + BetaTimes(b, dO[k])]

\* line 103: jax.grad(total_loss_for_grad, argnums=0), the gradient of the
\* batch mean, which is the mean of the samples' gradients.
grad_fn(w, batch, b) ==
    [k \in Keys |-> Mean([i \in 1..Len(batch) |-> d_total_loss(w, batch[i], b)[k]])]

\* A step that climbs instead of descending.
update_step_ascent(w, batch, b) ==
    LET grads == grad_fn(w, batch, b)
    IN  [k \in DOMAIN w |-> w[k] + learning_rate * grads[k]]

\* lines 106-108: jax.tree_map(lambda w, g: w - learning_rate * g, ...).
update_step(w, batch, b) ==
    LET grads == grad_fn(w, batch, b)
    IN  [k \in DOMAIN w |-> w[k] - learning_rate * grads[k]]

-----------------------------------------------------------------------------
(* The global numpy generator and the DataLoader. *)

NextRng(r) == (13 * r + 7) % 64
randn(r) == (r % 5) - 2

RECURSIVE RngAfter(_, _)
RngAfter(r, n) == IF n = 0 THEN r ELSE NextRng(RngAfter(r, n - 1))

IndexOf(k) == CHOOSE i \in 1..NumKeys : KeyOf[i] = k

\* line 97: one np.random.randn() per key, in key order.
init_weights(r) == [k \in Keys |-> randn(RngAfter(r, IndexOf(k)))]

\* A train that seeds the generator again after drawing.
rng_reseeded(r) == seed % 64

\* The generator after the draws of line 97.
rng_after_init(r) == RngAfter(r, NumKeys)

Min(a, b) == IF a < b THEN a ELSE b

Reverse(s) == [i \in 1..Len(s) |-> s[Len(s) + 1 - i]]

RECURSIVE Chunk(_, _)
Chunk(d, bs) ==
    IF d = <<>> THEN <<>>
    ELSE <<SubSeq(d, 1, Min(bs, Len(d)))>> \o Chunk(SubSeq(d, bs + 1, Len(d)), bs)

\* One pass over DataLoader(dataset, batch_size, shuffle=True): the batches of
\* a permutation of the dataset (the model draws among two permutations).
EpochBatches == {Chunk(dataset, batch_size), Chunk(Reverse(dataset), batch_size)}

-----------------------------------------------------------------------------
(* main's grid. *)

chi_list == <<85>>
beta_list == <<One, 8 * One>>
LrLists == {<<0>>, <<1>>}

NumTrials == Len(chi_list) * Len(beta_list) * Len(lr_list)

\* The (chi, beta, lr) of the i-th train call (i from 0), in loop order.
TrialAt(i) ==
    [chi |-> chi_list[(i \div (Len(lr_list) * Len(beta_list))) + 1],
     beta |-> beta_list[((i \div Len(lr_list)) % Len(beta_list)) + 1],
     lr |-> lr_list[(i % Len(lr_list)) + 1]]

KeyOfTrial(i) == <<TrialAt(i).chi, TrialAt(i).beta, TrialAt(i).lr>>

-----------------------------------------------------------------------------
(* State. *)

NoWeights == [k \in Keys |-> 0]
NoLists == [loss_history |-> 0, cloning_loss_history |-> 0,
            FA_history |-> 0, FB_history |-> 0]
ZeroAcc == [epoch_loss |-> 0, num_batches |-> 0, epoch_cloning_loss |-> 0,
            total_FA |-> 0, total_FB |-> 0]
HistNames == {"loss_history", "cloning_loss_history", "FA_history", "FB_history"}

\* The process after the import of the module (lines 15-18) and the
\* configuration of main (lines 147-158), before the first train call.
Init ==
    /\ pc = "main"
    /\ rng = seed % 64
    /\ trial = 0
    /\ hyperparams_results = <<>>
    /\ heap = <<>>
    /\ num_epochs \in 0..MaxEpochs
    /\ dataset \in {[i \in 1..n |-> i] : n \in 0..MaxData}
    /\ batch_size \in 1..MaxBatchSize
    /\ lr_list \in LrLists
    /\ learning_rate = 0
    /\ beta = One
    /\ weights = NoWeights
    /\ hist = NoLists
    /\ epoch = -1
    /\ acc = ZeroAcc
    /\ batches = <<>>
    /\ log = <<>>
    /\ n_updates = 0
    /\ call = [fn |-> "none"]

config == <<num_epochs, dataset, batch_size, lr_list>>

\* Four list objects that share the lists of the first call.
shared_lists(h) ==
    [loss_history |-> 1, cloning_loss_history |-> 2,
     FA_history |-> 3, FB_history |-> 4]

\* lines 98-101: four new, empty list objects.
new_lists(h) ==
    [loss_history |-> Len(h) + 1, cloning_loss_history |-> Len(h) + 2,
     FA_history |-> Len(h) + 3, FB_history |-> Len(h) + 4]

\* main lines 161-170 and train lines 95-110: the next trial of the grid
\* calls train, which draws its weights and creates its histories.
TrainInit ==
    /\ pc = "main"
    /\ trial < NumTrials
    /\ learning_rate' = TrialAt(trial).lr
    /\ beta' = TrialAt(trial).beta
    /\ weights' = init_weights(rng)
    /\ rng' = rng_after_init(rng)
    /\ hist' = new_lists(heap)
    /\ heap' = heap \o <<<<>>, <<>>, <<>>, <<>>>>
    /\ trial' = trial + 1
    /\ epoch' = -1
    /\ acc' = ZeroAcc
    /\ batches' = <<>>
    /\ log' = <<>>
    /\ n_updates' = 0
    /\ pc' = "epoch"
    /\ UNCHANGED <<hyperparams_results, config, call>>

\* An epoch that keeps the accumulators of the epoch before.
EpochStartNoReset ==
    /\ pc = "epoch"
    /\ epoch + 1 < num_epochs
    /\ epoch' = epoch + 1
    /\ \E bs \in EpochBatches : batches' = bs
    /\ pc' = "batch"
    /\ UNCHANGED <<rng, trial, hyperparams_results, heap, config, learning_rate,
                   beta, weights, hist, acc, log, n_updates, call>>

\* An epoch that draws the weights again.
EpochStartReinit ==
    /\ pc = "epoch"
    /\ epoch + 1 < num_epochs
    /\ epoch' = epoch + 1
    /\ acc' = ZeroAcc
    /\ weights' = init_weights(rng)
    /\ \E bs \in EpochBatches : batches' = bs
    /\ pc' = "batch"
    /\ UNCHANGED <<rng, trial, hyperparams_results, heap, config, learning_rate,
                   beta, hist, log, n_updates, call>>

\* lines 111-117: the next epoch starts, the accumulators are reset and the
\* dataloader is iterated anew.
EpochStart ==
    /\ pc = "epoch"
    /\ epoch + 1 < num_epochs
    /\ epoch' = epoch + 1
    /\ acc' = ZeroAcc
    /\ \E bs \in EpochBatches : batches' = bs
    /\ pc' = "batch"
    /\ UNCHANGED <<rng, trial, hyperparams_results, heap, config, learning_rate,
                   beta, weights, hist, log, n_updates, call>>

\* A batch whose metrics are computed after the step.
BatchStepUpdateFirst ==
    /\ pc = "batch"
    /\ batches # <<>>
    /\ LET batch == Head(batches)
           new == update_step(weights, batch, beta)
           m == compute_loss_batch(new, batch, beta)
       IN  /\ acc' = [epoch_loss |-> acc.epoch_loss + m.total,
                      num_batches |-> acc.num_batches + 1,
                      epoch_cloning_loss |-> acc.epoch_cloning_loss + m.cloning,
                      total_FA |-> acc.total_FA + m.FA,
                      total_FB |-> acc.total_FB + m.FB]
           /\ weights' = new
           /\ n_updates' = n_updates + 1
           /\ log' = Append(log, [epoch |-> epoch, batch |-> batch,
                                  w_pre |-> weights, metrics |-> m,
                                  w_post |-> new])
    /\ batches' = Tail(batches)
    /\ UNCHANGED <<pc, rng, trial, hyperparams_results, heap, config,
                   learning_rate, beta, hist, epoch, call>>

\* lines 117-128: one batch: the four metrics with the current weights are
\* added to the accumulators, then the weights become update_step's result.
BatchStep ==
    /\ pc = "batch"
    /\ batches # <<>>
    /\ LET batch == Head(batches)
           m == compute_loss_batch(weights, batch, beta)
           new == update_step(weights, batch, beta)
       IN  /\ acc' = [epoch_loss |-> acc.epoch_loss + m.total,
                      num_batches |-> acc.num_batches + 1,
                      epoch_cloning_loss |-> acc.epoch_cloning_loss + m.cloning,
                      total_FA |-> acc.total_FA + m.FA,
                      total_FB |-> acc.total_FB + m.FB]
           /\ weights' = new
           /\ n_updates' = n_updates + 1
           /\ log' = Append(log, [epoch |-> epoch, batch |-> batch,
                                  w_pre |-> weights, metrics |-> m,
                                  w_post |-> new])
    /\ batches' = Tail(batches)
    /\ UNCHANGED <<pc, rng, trial, hyperparams_results, heap, config,
                   learning_rate, beta, hist, epoch, call>>

\* line 129 with num_batches = 0: ZeroDivisionError, which nothing catches.
EpochEndRaise ==
    /\ pc = "batch"
    /\ batches = <<>>
    /\ acc.num_batches = 0
    /\ pc' = "raised"
    /\ UNCHANGED <<rng, trial, hyperparams_results, heap, config, learning_rate,
                   beta, weights, hist, epoch, acc, batches, log, n_updates, call>>

\* An epoch end that leaves FB_history as it is.
EpochEndDropFB ==
    /\ pc = "batch"
    /\ batches = <<>>
    /\ acc.num_batches # 0
    /\ heap' = [heap EXCEPT
           ![hist.loss_history] = Append(@, acc.epoch_loss \div acc.num_batches),
           ![hist.cloning_loss_history] =
               Append(@, acc.epoch_cloning_loss \div acc.num_batches),
           ![hist.FA_history] = Append(@, acc.total_FA \div acc.num_batches)]
    /\ pc' = "epoch"
    /\ UNCHANGED <<rng, trial, hyperparams_results, config, learning_rate, beta,
                   weights, hist, epoch, acc, batches, log, n_updates, call>>

\* lines 129-140: the four averages of the epoch are appended.
EpochEnd ==
    /\ pc = "batch"
    /\ batches = <<>>
    /\ acc.num_batches # 0
    /\ heap' = [heap EXCEPT
           ![hist.loss_history] = Append(@, acc.epoch_loss \div acc.num_batches),
           ![hist.cloning_loss_history] =
               Append(@, acc.epoch_cloning_loss \div acc.num_batches),
           ![hist.FA_history] = Append(@, acc.total_FA \div acc.num_batches),
           ![hist.FB_history] = Append(@, acc.total_FB \div acc.num_batches)]
    /\ pc' = "epoch"
    /\ UNCHANGED <<rng, trial, hyperparams_results, config, learning_rate, beta,
                   weights, hist, epoch, acc, batches, log, n_updates, call>>

\* lines 142-143 and main lines 168-204: train returns after the last epoch
\* and main files the four lists under the trial's key.
TrainReturn ==
    /\ pc = "epoch"
    /\ epoch + 1 >= num_epochs
    /\ hyperparams_results' =
           [k \in DOMAIN hyperparams_results \cup {KeyOfTrial(trial - 1)} |->
               IF k = KeyOfTrial(trial - 1) THEN hist ELSE hyperparams_results[k]]
    /\ pc' = "main"
    /\ UNCHANGED <<rng, trial, heap, config, learning_rate, beta, weights, hist,
                   epoch, acc, batches, log, n_updates, call>>

\* line 207: the grid is exhausted and main saves the results.
MainDone ==
    /\ pc = "main"
    /\ trial >= NumTrials
    /\ pc' = "done"
    /\ UNCHANGED <<rng, trial, hyperparams_results, heap, config, learning_rate,
                   beta, weights, hist, epoch, acc, batches, log, n_updates, call>>

Next ==
    \/ TrainInit
    \/ EpochStart
    \/ BatchStep
    \/ EpochEndRaise
    \/ EpochEnd
    \/ TrainReturn
    \/ MainDone

Spec == Init /\ [][Next]_vars

\* The process runs on while it can: a step that is possible is taken.
FairSpec == Spec /\ WF_vars(Next)

-----------------------------------------------------------------------------
(* A direct call of the selector of compute_loss, for beta around the      *)
(* threshold.  The losses are multiples of One, so that beta * loss is     *)
(* exact in units of 1e-7.                                                 *)

BetaInputs ==
    {0, 8 * One, One - 100, One - 11, One - 10, One - 9, One - 1, One,
     One + 1, One + 9, One + 10, One + 11, One + 100}
OccInputs == {0, One, 3 * One}
ClonInputs == {0 - One, 0, 2 * One}

InitLoss ==
    /\ pc = "call"
    /\ rng = seed % 64
    /\ trial = 0
    /\ hyperparams_results = <<>>
    /\ heap = <<>>
    /\ num_epochs = 0
    /\ dataset = <<>>
    /\ batch_size = 1
    /\ lr_list = <<0>>
    /\ learning_rate = 0
    /\ beta = One
    /\ weights = NoWeights
    /\ hist = NoLists
    /\ epoch = -1
    /\ acc = ZeroAcc
    /\ batches = <<>>
    /\ log = <<>>
    /\ n_updates = 0
    /\ \E b \in BetaInputs, occ \in OccInputs, clon \in ClonInputs :
           call = [fn |-> "total_loss", beta |-> b, occupation_loss |-> occ,
                   cloning_loss |-> clon, returned |-> FALSE, total_loss |-> 0]

\* lines 74-79: the selector is evaluated and its value returned.
CallTotalLoss ==
    /\ pc = "call"
    /\ call.returned = FALSE
    /\ call' = [call EXCEPT !.returned = TRUE,
                   !.total_loss = total_loss(call.beta, call.occupation_loss,
                                             call.cloning_loss)]
    /\ UNCHANGED <<pc, rng, trial, hyperparams_results, heap, config,
                   learning_rate, beta, weights, hist, epoch, acc, batches, log,
                   n_updates>>

NextLoss == CallTotalLoss

SpecLoss == InitLoss /\ [][NextLoss]_vars

Returned == pc = "call" /\ call.returned

-----------------------------------------------------------------------------
(* Properties of train and main. *)

InTrain == pc \in {"epoch", "batch", "raised"}

\* Epochs of the current call whose body has run to its end.
EpochsCompleted == IF pc = "epoch" THEN epoch + 1 ELSE epoch

\* Batches one pass over the dataloader yields.
BatchesPerEpoch == Len(Chunk(dataset, batch_size))

\* The log records of one epoch, in order.
LogOfEpoch(e) == SelectSeq(log, LAMBDA r : r.epoch = e)

MetricSum(rs, f) == SumSeq([i \in 1..Len(rs) |-> rs[i].metrics[f]])

\* C3: for every batch of the call the metrics are those of the weights
\* before the step, the step is taken from those weights on that batch, the
\* next batch starts from the step's result (across epochs too), and the
\* current weights are the result of the last step.
C3_PreUpdateMetrics ==
    /\ \A i \in 1..Len(log) :
         /\ log[i].metrics = compute_loss_batch(log[i].w_pre, log[i].batch, beta)
         /\ log[i].w_post = update_step(log[i].w_pre, log[i].batch, beta)
         /\ i < Len(log) => log[i + 1].w_pre = log[i].w_post
    /\ log # <<>> => weights = log[Len(log)].w_post

\* Two batches of different epochs were processed, and the step of the first
\* changed the weights and the metrics of its batch.
C3_Witness ==
    /\ Len(log) >= 2
    /\ log[1].epoch # log[2].epoch
    /\ log[1].w_post # log[1].w_pre
    /\ compute_loss_batch(log[1].w_post, log[1].batch, beta) # log[1].metrics

C4_Lengths ==
    /\ InTrain =>
         \A h \in HistNames : Len(heap[hist[h]]) = EpochsCompleted
    /\ (pc \in {"main", "done"} /\ trial > 0) =>
         \A h \in HistNames :
            Len(heap[hyperparams_results[KeyOfTrial(trial - 1)][h]]) = num_epochs

C4_AppendOnly ==
    \A id \in 1..Len(heap) :
        /\ Len(heap'[id]) >= Len(heap[id])
        /\ SubSeq(heap'[id], 1, Len(heap[id])) = heap[id]

\* C4: during train each of the four histories has as many entries as epochs
\* are completed, a returned history has num_epochs entries, and a step only
\* ever appends to a list.
C4_History == [](C4_Lengths) /\ [][C4_AppendOnly]_vars

\* A call of two epochs has returned its histories.
C4_Witness ==
    /\ pc = "main"
    /\ trial > 0
    /\ num_epochs = 2
    /\ Len(heap[hist.FB_history]) = 2

\* C5: train never raises, it stops only when main is done, and a call that
\* has returned has run exactly num_epochs epochs.
C5_TerminatesWithoutRaising ==
    /\ pc # "raised"
    /\ pc = "done" \/ ENABLED Next
    /\ (pc = "main" /\ trial > 0) =>
         /\ epoch + 1 = num_epochs
         /\ \A h \in HistNames : Len(heap[hist[h]]) = num_epochs

\* C6: every step returns a mapping over the same 8 keys with
\* new[k] = old[k] - learning_rate * grad[k], grad the gradient of the batch
\* mean of the total loss; with learning_rate = 0 the weights are unchanged.
C6_GradientStep ==
    \A i \in 1..Len(log) :
        LET old == log[i].w_pre
            new == log[i].w_post
            grads == grad_fn(old, log[i].batch, beta)
        IN  /\ DOMAIN new = DOMAIN old
            /\ DOMAIN new = Keys
            /\ Cardinality(DOMAIN new) = 8
            /\ \A k \in Keys : new[k] = old[k] - learning_rate * grads[k]
            /\ learning_rate = 0 => new = old

\* A step with a non-zero learning rate and a non-zero gradient was taken.
C6_Witness ==
    /\ log # <<>>
    /\ learning_rate # 0
    /\ log[1].w_post # log[1].w_pre

\* C7: the entry of epoch e in each history is the sum of the metric over the
\* batches of epoch e divided by their number, and during an epoch the
\* accumulators hold the sums over that epoch's batches alone.
C7_EpochAverages ==
    /\ (InTrain \/ (pc \in {"main", "done"} /\ trial > 0)) =>
         \A e \in 1..Len(heap[hist.loss_history]) :
            LET rs == LogOfEpoch(e - 1)
            IN  /\ rs # <<>>
                /\ heap[hist.loss_history][e] = MetricSum(rs, "total") \div Len(rs)
                /\ heap[hist.cloning_loss_history][e] =
                       MetricSum(rs, "cloning") \div Len(rs)
                /\ heap[hist.FA_history][e] = MetricSum(rs, "FA") \div Len(rs)
                /\ heap[hist.FB_history][e] = MetricSum(rs, "FB") \div Len(rs)
    /\ pc = "batch" =>
         LET rs == LogOfEpoch(epoch)
         IN  /\ acc.num_batches = Len(rs)
             /\ acc.epoch_loss = MetricSum(rs, "total")
             /\ acc.epoch_cloning_loss = MetricSum(rs, "cloning")
             /\ acc.total_FA = MetricSum(rs, "FA")
             /\ acc.total_FB = MetricSum(rs, "FB")

\* Two epochs with batches are completed, and the first had non-zero sums.
C7_Witness ==
    /\ InTrain
    /\ Len(heap[hist.loss_history]) = 2
    /\ MetricSum(LogOfEpoch(0), "total") # 0
    /\ MetricSum(LogOfEpoch(0), "FA") # 0
    /\ Len(LogOfEpoch(1)) >= 2

C8_Count ==
    InTrain =>
        n_updates = EpochsCompleted * BatchesPerEpoch
                      + (IF pc = "batch" THEN acc.num_batches ELSE 0)

C8_OnlyTheStep ==
    /\ weights' # weights =>
         \/ pc = "main" /\ pc' = "epoch"
         \/ /\ pc = "batch"
            /\ batches # <<>>
            /\ weights' = update_step(weights, Head(batches), beta)
            /\ n_updates' = n_updates + 1
    /\ (n_updates' # n_updates /\ pc # "main") =>
         /\ n_updates' = n_updates + 1
         /\ acc'.num_batches = acc.num_batches + 1

\* C8: the weights change only when train creates them and when a batch's
\* update_step result is assigned, once per batch; the number of updates is
\* the number of batches processed.
C8_UpdatedOncePerBatch == [](C8_Count) /\ [][C8_OnlyTheStep]_vars

\* The second epoch is completed after at least two updates.
C8_Witness ==
    /\ pc = "epoch"
    /\ epoch >= 1
    /\ n_updates >= 2
    /\ weights # init_weights(RngAfter(seed % 64, NumKeys * (trial - 1)))

StoredLists == {hyperparams_results[k][h] : k \in DOMAIN hyperparams_results,
                                            h \in HistNames}

C9_FreshAtStart ==
    (pc = "main" /\ pc' = "epoch") =>
        /\ \A h \in HistNames :
             /\ heap'[hist'[h]] = <<>>
             /\ hist'[h] \notin StoredLists
        /\ Cardinality({hist'[h] : h \in HistNames}) = 4
        /\ weights' = init_weights(rng)

C9_StoredUnchanged ==
    \A k \in DOMAIN hyperparams_results :
        /\ k \in DOMAIN hyperparams_results'
        /\ hyperparams_results'[k] = hyperparams_results[k]
        /\ \A h \in HistNames :
             heap'[hyperparams_results[k][h]] = heap[hyperparams_results[k][h]]

\* C9: every train call starts from newly drawn weights and four new, empty
\* lists that no stored result refers to, and no step changes the histories
\* stored under an earlier key.
C9_TrialIndependence == [][C9_FreshAtStart /\ C9_StoredUnchanged]_vars

\* Two trials have stored non-empty histories.
C9_Witness ==
    /\ pc = "done"
    /\ Cardinality(DOMAIN hyperparams_results) >= 2
    /\ \A k \in DOMAIN hyperparams_results :
         heap[hyperparams_results[k].loss_history] # <<>>

AtTrainStart == pc = "epoch" /\ epoch = -1

\* C10 as stated: every training run of a process seeded with seed starts
\* from the same weights, those the seed alone determines, whatever runs
\* came before it.
C10_AsStated == AtTrainStart => weights = init_weights(seed % 64)

\* C10 amended: the initial weights of the n-th train call of a process are
\* determined by the seed and n: they are the draws 8(n-1)+1 .. 8n of the
\* generator seeded once at import.
C10_SeedAndPosition ==
    AtTrainStart =>
        /\ DOMAIN weights = Keys
        /\ weights = init_weights(RngAfter(seed % 64, NumKeys * (trial - 1)))
        /\ rng = RngAfter(seed % 64, NumKeys * trial)

\* The second train call starts from other weights than the first.
C10_Witness ==
    /\ AtTrainStart
    /\ trial = 2
    /\ weights # init_weights(seed % 64)

====
